---------------------------- MODULE Spec2Model ----------------------------
(***************************************************************************)
(* Model of src/pomodoro_timer.py: the PomodoroTimer interval state        *)
(* machine, its button handlers and the run_timer countdown threads.       *)
(*                                                                         *)
(* Granularity.  The button handlers (start_timer, pause_timer,            *)
(* reset_timer, set_custom_time) are callbacks of the Tk main loop; each   *)
(* is one action; while the error dialog of set_custom_time is open no    *)
(* button responds.  run_timer executes on a daemon thread started by        *)
(* start_timer; it shares the object's fields with the handlers without    *)
(* any lock, so every statement of run_timer and timer_finished is a       *)
(* separate step (named L<line>), and the two augmented assignments        *)
(* (lines 192 and 209) are a read step followed by a write step.           *)
(* The root.update() of update_time_display is taken to redraw only: it    *)
(* dispatches no further button command inside a handler.  The text of     *)
(* the custom entry is an input of set_custom_time; format_custom_time,    *)
(* the labels, the notification and the sound hold no state read here;     *)
(* an exception of the notification or the sound that the code does not    *)
(* catch ends the thread that called it.                                   *)
(***************************************************************************)
EXTENDS Integers, Sequences, FiniteSets, Bags, TLC

\* ------------------------------------------------------------ bounds
\* Live run_timer threads the model follows at once.
MaxThreads == 2
\* Under Spec a countdown is followed through its last MaxTicks seconds: a
\* thread sleeping in line 191 wakes up only when time_left <= MaxTicks; and
\* no countdown is followed below -MaxTicks.
MaxTicks == 2
\* pomodoro_count is not incremented beyond this value.
MaxPomodoros == 4

\* --------------------------------------------------- program constants
pomodoro_time == 25 * 60
short_break_time == 5 * 60
long_break_time == 30 * 60

VARIABLES
    time_left,        \* self.time_left
    timer_running,    \* self.timer_running
    timer_paused,     \* self.timer_paused
    pomodoro_count,   \* self.pomodoro_count
    current_mode,     \* self.current_mode
    start_button,     \* state of self.start_button
    pause_button,     \* state of self.pause_button
    custom_button,    \* state of self.custom_button
    messagebox,       \* text of the open messagebox.showerror dialog, "" if none
    threads,          \* bag of the live run_timer threads
    horizon           \* largest time_left whose decrement is followed

core == <<time_left, timer_running, timer_paused, pomodoro_count, current_mode>>
buttons == <<start_button, pause_button, custom_button>>
vars == <<time_left, timer_running, timer_paused, pomodoro_count, current_mode,
          start_button, pause_button, custom_button, messagebox, threads, horizon>>

\* ------------------------------------------------- custom entry parsing
Digit == {"0", "1", "2", "3", "4", "5", "6", "7", "8", "9"}

DigitVal(c) ==
    CASE c = "0" -> 0 [] c = "1" -> 1 [] c = "2" -> 2 [] c = "3" -> 3
      [] c = "4" -> 4 [] c = "5" -> 5 [] c = "6" -> 6 [] c = "7" -> 7
      [] c = "8" -> 8 [] c = "9" -> 9

\* str.split(":"): the segments between the colons, empty ones included.
RECURSIVE Split(_)
Split(s) ==
    IF \A i \in 1..Len(s) : s[i] # ":"
    THEN <<s>>
    ELSE LET k == CHOOSE i \in 1..Len(s) :
                      s[i] = ":" /\ \A j \in 1..(i - 1) : s[j] # ":"
         IN  <<SubSeq(s, 1, k - 1)>> \o Split(SubSeq(s, k + 1, Len(s)))

\* int() ignores blanks around the literal.
RECURSIVE Strip(_)
Strip(s) ==
    IF Len(s) > 0 /\ s[1] = " " THEN Strip(Tail(s))
    ELSE IF Len(s) > 0 /\ s[Len(s)] = " " THEN Strip(SubSeq(s, 1, Len(s) - 1))
    ELSE s

Unsigned(s) ==
    LET t == Strip(s)
    IN  IF Len(t) > 0 /\ t[1] \in {"+", "-"} THEN Tail(t) ELSE t

\* int(segment) returns a value (otherwise it raises ValueError).
IsInt(s) ==
    /\ Len(Unsigned(s)) > 0
    /\ \A i \in 1..Len(Unsigned(s)) : Unsigned(s)[i] \in Digit

RECURSIVE Magnitude(_)
Magnitude(d) ==
    IF Len(d) = 0 THEN 0
    ELSE 10 * Magnitude(SubSeq(d, 1, Len(d) - 1)) + DigitVal(d[Len(d)])

ToInt(s) ==
    LET t == Strip(s)
    IN  IF t[1] = "-" THEN 0 - Magnitude(Unsigned(s)) ELSE Magnitude(Unsigned(s))

\* Texts of the custom entry the model tries (self.custom_entry.get()).
CustomEntries ==
    { <<"0", "0", ":", "0", "0", ":", "0", "5">>,
      <<"0", "0", ":", "0", "0", ":", "0", "0">>,
      <<"0", ":", "0", ":", "1">>,
      <<"0", ":", " ", "0", ":", "+", "1">>,
      <<"0", ":", "-", "1", ":", "6", "5">>,
      <<"-", "1", ":", "0", ":", "0">>,
      <<"1", ":", "2">>,
      <<"1", ":", "2", ":", "3", ":", "4">>,
      <<"0", ":", ":", "1">>,
      <<"a", ":", "0", ":", "1">>,
      <<"0", ":", "0", ":", "-">>,
      <<>> }

\* Line 277 with the minutes counted as seconds.
TotalSeconds_NoMinutes(entry) ==
    LET time_parts == Split(entry)
    IN  ToInt(time_parts[1]) * 3600 + ToInt(time_parts[2]) + ToInt(time_parts[3])

\* total_seconds of line 277, for an entry of three integers.
TotalSeconds(entry) ==
    LET time_parts == Split(entry)
    IN  ToInt(time_parts[1]) * 3600 + ToInt(time_parts[2]) * 60
            + ToInt(time_parts[3])

\* Lines 272-283 accepting a total of zero.
CustomTimeError_ZeroAccepted(entry) ==
    LET time_parts == Split(entry)
    IN  IF Len(time_parts) # 3 THEN "Invalid time format"
        ELSE IF \E i \in 1..3 : ~IsInt(time_parts[i])
             THEN "invalid literal for int() with base 10"
        ELSE IF TotalSeconds(entry) >= 0 THEN ""
        ELSE "Time must be greater than zero"

\* The message of the ValueError raised by lines 272-283, "" if none is raised.
CustomTimeError(entry) ==
    LET time_parts == Split(entry)
    IN  IF Len(time_parts) # 3 THEN "Invalid time format"
        ELSE IF \E i \in 1..3 : ~IsInt(time_parts[i])
             THEN "invalid literal for int() with base 10"
        ELSE IF TotalSeconds(entry) > 0 THEN ""
        ELSE "Time must be greater than zero"

\* Lines 272-283 applied to each entry once: the error and the total.
ParsedEntry ==
    [entry \in CustomEntries |->
        [error |-> CustomTimeError(entry),
         total |-> IF CustomTimeError(entry) = "" THEN TotalSeconds(entry) ELSE 0]]

\* -------------------------------------------------------------- threads
\* A run_timer thread: pc is the line it executes next; tmp is the value the
\* augmented assignment under way has read (0 outside one; the count read by
\* line 209 is kept until timer_finished returns).
Thread(pc, tmp) == [pc |-> pc, tmp |-> tmp]

NewThread == Thread("L187", 0)

NumThreads == BagCardinality(threads)

Live == BagToSet(threads)

Goto(t, pc) == [t EXCEPT !.pc = pc]

Replace(t, u) == (threads (-) SetToBag({t})) (+) SetToBag({u})

\* ----------------------------------------------------------------- Init
InitObject ==
    /\ time_left = pomodoro_time
    /\ timer_running = FALSE
    /\ timer_paused = FALSE
    /\ pomodoro_count = 0
    /\ current_mode = "Pomodoro"
    /\ start_button = "normal"
    /\ pause_button = "disabled"
    /\ custom_button = "normal"
    /\ messagebox = ""
    /\ threads = EmptyBag

Init == InitObject /\ horizon = MaxTicks

\* ------------------------------------------------------------- handlers
\* start_timer without the test of line 178.
StartTimer_NoTest ==
    /\ messagebox = ""
    /\ NumThreads < MaxThreads
    /\ timer_running' = TRUE
    /\ start_button' = "disabled"
    /\ pause_button' = "normal"
    /\ custom_button' = "disabled"
    /\ threads' = threads (+) SetToBag({NewThread})
    /\ UNCHANGED <<time_left, timer_paused, pomodoro_count, current_mode,
                   messagebox, horizon>>

\* start_timer reloading time_left with the Work duration.
StartTimer_Reloads ==
    /\ messagebox = ""
    /\ IF ~timer_running
       THEN /\ NumThreads < MaxThreads
            /\ timer_running' = TRUE
            /\ time_left' = pomodoro_time
            /\ start_button' = "disabled"
            /\ pause_button' = "normal"
            /\ custom_button' = "disabled"
            /\ threads' = threads (+) SetToBag({NewThread})
            /\ UNCHANGED <<timer_paused, pomodoro_count, current_mode,
                           messagebox, horizon>>
       ELSE UNCHANGED vars

\* The Start button's command.
StartTimer ==
    /\ messagebox = ""
    /\ IF ~timer_running
       THEN /\ NumThreads < MaxThreads
            /\ timer_running' = TRUE
            /\ start_button' = "disabled"
            /\ pause_button' = "normal"
            /\ custom_button' = "disabled"
            /\ threads' = threads (+) SetToBag({NewThread})
            /\ UNCHANGED <<time_left, timer_paused, pomodoro_count,
                           current_mode, messagebox, horizon>>
       ELSE UNCHANGED vars

\* The Pause button's command; a disabled button does not invoke it.
PauseTimer ==
    /\ pause_button = "normal"
    /\ messagebox = ""
    /\ timer_paused' = ~timer_paused
    /\ UNCHANGED <<time_left, timer_running, pomodoro_count, current_mode,
                   buttons, messagebox, threads, horizon>>

\* reset_timer without line 262.
ResetTimer_KeepsCount ==
    /\ messagebox = ""
    /\ timer_running' = FALSE
    /\ timer_paused' = FALSE
    /\ time_left' = pomodoro_time
    /\ current_mode' = "Pomodoro"
    /\ start_button' = "normal"
    /\ pause_button' = "disabled"
    /\ custom_button' = "normal"
    /\ UNCHANGED <<pomodoro_count, messagebox, threads, horizon>>

\* reset_timer without line 259.
ResetTimer_KeepsPaused ==
    /\ messagebox = ""
    /\ timer_running' = FALSE
    /\ time_left' = pomodoro_time
    /\ current_mode' = "Pomodoro"
    /\ pomodoro_count' = 0
    /\ start_button' = "normal"
    /\ pause_button' = "disabled"
    /\ custom_button' = "normal"
    /\ UNCHANGED <<timer_paused, messagebox, threads, horizon>>

\* The Reset button's command.
ResetTimer ==
    /\ messagebox = ""
    /\ timer_running' = FALSE
    /\ timer_paused' = FALSE
    /\ time_left' = pomodoro_time
    /\ current_mode' = "Pomodoro"
    /\ pomodoro_count' = 0
    /\ start_button' = "normal"
    /\ pause_button' = "disabled"
    /\ custom_button' = "normal"
    /\ UNCHANGED <<messagebox, threads, horizon>>

\* The Set Custom Time button's command, with the entry holding `entry`;
\* a disabled button does not invoke it.
SetCustomTime(entry) ==
    /\ custom_button = "normal"
    /\ messagebox = ""
    /\ IF ParsedEntry[entry].error = ""
       THEN /\ time_left' = ParsedEntry[entry].total
            /\ UNCHANGED messagebox
       ELSE /\ messagebox' = ParsedEntry[entry].error
            /\ UNCHANGED time_left
    /\ UNCHANGED <<timer_running, timer_paused, pomodoro_count, current_mode,
                   buttons, threads, horizon>>

SetCustom == \E entry \in CustomEntries : SetCustomTime(entry)

\* Line 285: messagebox.showerror is a modal dialog; the handler returns, and
\* the buttons respond again, when the user closes it.
CloseMessagebox ==
    /\ messagebox # ""
    /\ messagebox' = ""
    /\ UNCHANGED <<core, buttons, threads, horizon>>

\* ------------------------------------------------------------ run_timer
\* Line 187: while self.timer_running; the thread ends when it is false.
L187(t) ==
    /\ t.pc = "L187"
    /\ threads' = IF timer_running
                  THEN Replace(t, Goto(t, "L188a"))
                  ELSE threads (-) SetToBag({t})
    /\ UNCHANGED <<core, buttons, messagebox, horizon>>

\* Line 188, left operand: self.time_left > 0.
L188a(t) ==
    /\ t.pc = "L188a"
    /\ threads' = Replace(t, Goto(t, IF time_left > 0 THEN "L188b" ELSE "L196"))
    /\ UNCHANGED <<core, buttons, messagebox, horizon>>

\* Line 188, right operand: self.timer_running.
L188b(t) ==
    /\ t.pc = "L188b"
    /\ threads' = Replace(t, Goto(t, IF timer_running THEN "L189" ELSE "L196"))
    /\ UNCHANGED <<core, buttons, messagebox, horizon>>

\* Lines 189-191 and 193-194: if not paused, show the time and sleep one
\* second (the decrement of line 192 follows); else sleep 0.1 s and loop.
L189(t) ==
    /\ t.pc = "L189"
    /\ threads' = Replace(t, Goto(t, IF ~timer_paused THEN "L192r" ELSE "L188a"))
    /\ UNCHANGED <<core, buttons, messagebox, horizon>>

\* Line 192, self.time_left -= 1: the load of self.time_left.
L192r(t) ==
    /\ t.pc = "L192r"
    /\ time_left <= horizon
    /\ time_left + MaxTicks > 0
    /\ threads' = Replace(t, [t EXCEPT !.pc = "L192w", !.tmp = time_left])
    /\ UNCHANGED <<core, buttons, messagebox, horizon>>

\* Line 192 storing the value loaded minus 2.
L192w_ByTwo(t) ==
    /\ t.pc = "L192w"
    /\ time_left' = t.tmp - 2
    /\ threads' = Replace(t, [t EXCEPT !.pc = "L188a", !.tmp = 0])
    /\ UNCHANGED <<timer_running, timer_paused, pomodoro_count, current_mode,
                   buttons, messagebox, horizon>>

\* Line 192, self.time_left -= 1: the store.
L192w(t) ==
    /\ t.pc = "L192w"
    /\ time_left' = t.tmp - 1
    /\ threads' = Replace(t, [t EXCEPT !.pc = "L188a", !.tmp = 0])
    /\ UNCHANGED <<timer_running, timer_paused, pomodoro_count, current_mode,
                   buttons, messagebox, horizon>>

\* Lines 196-197: if self.timer_running: self.timer_finished().
L196(t) ==
    /\ t.pc = "L196"
    /\ threads' = IF timer_running
                  THEN Replace(t, Goto(t, "L208"))
                  ELSE Replace(t, Goto(t, "L187"))
    /\ UNCHANGED <<core, buttons, messagebox, horizon>>

\* ------------------------------------------------------- timer_finished
\* Line 208: if self.current_mode == "Pomodoro".
L208(t) ==
    /\ t.pc = "L208"
    /\ threads' = Replace(t, Goto(t, IF current_mode = "Pomodoro"
                                     THEN "L209r" ELSE "L217"))
    /\ UNCHANGED <<core, buttons, messagebox, horizon>>

\* Line 209, self.pomodoro_count += 1: the load.
L209r(t) ==
    /\ t.pc = "L209r"
    /\ pomodoro_count < MaxPomodoros
    /\ threads' = Replace(t, [t EXCEPT !.pc = "L209w", !.tmp = pomodoro_count])
    /\ UNCHANGED <<core, buttons, messagebox, horizon>>

\* Line 209, self.pomodoro_count += 1: the store.
L209w(t) ==
    /\ t.pc = "L209w"
    /\ pomodoro_count' = t.tmp + 1
    /\ threads' = Replace(t, Goto(t, "L210"))
    /\ UNCHANGED <<time_left, timer_running, timer_paused, current_mode,
                   buttons, messagebox, horizon>>

\* Line 210 with a cycle of three.
L210_Every3(t) ==
    /\ t.pc = "L210"
    /\ threads' = Replace(t, Goto(t, IF pomodoro_count % 3 = 0
                                     THEN "L211" ELSE "L214"))
    /\ UNCHANGED <<core, buttons, messagebox, horizon>>

\* Line 210: if self.pomodoro_count % 4 == 0.
L210(t) ==
    /\ t.pc = "L210"
    /\ threads' = Replace(t, Goto(t, IF pomodoro_count % 4 = 0
                                     THEN "L211" ELSE "L214"))
    /\ UNCHANGED <<core, buttons, messagebox, horizon>>

\* Line 211: self.current_mode = "Long Break".
L211(t) ==
    /\ t.pc = "L211"
    /\ current_mode' = "Long Break"
    /\ threads' = Replace(t, Goto(t, "L212"))
    /\ UNCHANGED <<time_left, timer_running, timer_paused, pomodoro_count,
                   buttons, messagebox, horizon>>

\* Line 212: self.time_left = self.long_break_time.
L212(t) ==
    /\ t.pc = "L212"
    /\ time_left' = long_break_time
    /\ threads' = Replace(t, Goto(t, "L220"))
    /\ UNCHANGED <<timer_running, timer_paused, pomodoro_count, current_mode,
                   buttons, messagebox, horizon>>

\* Line 214: self.current_mode = "Short Break".
L214(t) ==
    /\ t.pc = "L214"
    /\ current_mode' = "Short Break"
    /\ threads' = Replace(t, Goto(t, "L215"))
    /\ UNCHANGED <<time_left, timer_running, timer_paused, pomodoro_count,
                   buttons, messagebox, horizon>>

\* Line 215: self.time_left = self.short_break_time.
L215(t) ==
    /\ t.pc = "L215"
    /\ time_left' = short_break_time
    /\ threads' = Replace(t, Goto(t, "L220"))
    /\ UNCHANGED <<timer_running, timer_paused, pomodoro_count, current_mode,
                   buttons, messagebox, horizon>>

\* Line 217: self.current_mode = "Pomodoro".
L217(t) ==
    /\ t.pc = "L217"
    /\ current_mode' = "Pomodoro"
    /\ threads' = Replace(t, Goto(t, "L218"))
    /\ UNCHANGED <<time_left, timer_running, timer_paused, pomodoro_count,
                   buttons, messagebox, horizon>>

\* Line 218 leaving time_left as the completed break left it.
L218_KeepsTime(t) ==
    /\ t.pc = "L218"
    /\ threads' = Replace(t, Goto(t, "L220"))
    /\ UNCHANGED <<core, buttons, messagebox, horizon>>

\* Line 218: self.time_left = self.pomodoro_time.
L218(t) ==
    /\ t.pc = "L218"
    /\ time_left' = pomodoro_time
    /\ threads' = Replace(t, Goto(t, "L220"))
    /\ UNCHANGED <<timer_running, timer_paused, pomodoro_count, current_mode,
                   buttons, messagebox, horizon>>

\* Lines 220-221: the mode label and the time display are updated.
L220(t) ==
    /\ t.pc = "L220"
    /\ threads' = Replace(t, Thread("L222", 0))
    /\ UNCHANGED <<core, buttons, messagebox, horizon>>

\* What notification.notify does in show_notification (lines 227-245):
\* "unavailable" is NOTIFICATIONS_AVAILABLE = False; "other" is any exception
\* that is none of the four classes of lines 232-241.
NotifyOutcomes ==
    {"ok", "unavailable", "NotImplementedError", "PermissionError",
     "ImportError", "OSError", "other"}

\* The outcomes show_notification returns from: the except clauses print.
NotifyHandled ==
    {"ok", "unavailable", "NotImplementedError", "PermissionError",
     "ImportError", "OSError"}

\* What play_alert_sound meets (lines 93-96): the sound plays, no sound was
\* loaded (a message is printed), or Sound.play raises pygame.error.
SoundOutcomes == {"played", "no sound", "pygame.error"}

SoundHandled == {"played", "no sound"}

\* Line 222: self.show_notification(...).  An exception it does not catch
\* leaves timer_finished and run_timer: the thread ends.
L222(t) ==
    /\ t.pc = "L222"
    /\ \E outcome \in NotifyOutcomes :
           threads' = IF outcome \in NotifyHandled
                      THEN Replace(t, Goto(t, "L223"))
                      ELSE threads (-) SetToBag({t})
    /\ UNCHANGED <<core, buttons, messagebox, horizon>>

\* Line 223: self.play_alert_sound(); the call returns to the loop test of
\* line 187, unless Sound.play raises: nothing catches it and the thread ends.
L223(t) ==
    /\ t.pc = "L223"
    /\ \E outcome \in SoundOutcomes :
           threads' = IF outcome \in SoundHandled
                      THEN Replace(t, NewThread)
                      ELSE threads (-) SetToBag({t})
    /\ UNCHANGED <<core, buttons, messagebox, horizon>>

\* One step of one run_timer thread.
RunTimer ==
    \E t \in Live :
        \/ L187(t) \/ L188a(t) \/ L188b(t) \/ L189(t) \/ L192r(t) \/ L192w(t)
        \/ L196(t) \/ L208(t) \/ L209r(t) \/ L209w(t) \/ L210(t)
        \/ L211(t) \/ L212(t) \/ L214(t) \/ L215(t) \/ L217(t) \/ L218(t)
        \/ L220(t) \/ L222(t) \/ L223(t)

\* ------------------------------------------------------- specifications
\* The program under every interleaving of the handlers and the threads.
Next ==
    StartTimer \/ PauseTimer \/ ResetTimer \/ SetCustom \/ CloseMessagebox \/ RunTimer

Spec == Init /\ [][Next]_vars

\* One uninterrupted session: Start, Pause/Unpause and the countdown, every
\* second followed, until pomodoro_count reaches MaxPomodoros.
InitCycle == InitObject /\ horizon = long_break_time

NextCycle == StartTimer \/ PauseTimer \/ RunTimer

SpecCycle == InitCycle /\ [][NextCycle]_vars

\* One session begun with custom sets and not reset, every second of a
\* countdown of at most a Short Break followed: the Work interval begun from
\* a custom value, the Short Break after it and the entry of the next Work
\* interval.
InitCustom == InitObject /\ horizon = short_break_time

NextCustom ==
    SetCustom \/ CloseMessagebox \/ StartTimer \/ PauseTimer \/ RunTimer

SpecCustom == InitCustom /\ [][NextCustom]_vars

\* The same session with no Pause: Start and the countdown only.
NextSolo == StartTimer \/ RunTimer

SpecSolo == InitCycle /\ [][NextSolo]_vars

\* The same, with the scheduler giving a run_timer thread that can take a
\* step its turn: the thread is a daemon thread of the interpreter.
SpecSoloFair == SpecSolo /\ WF_vars(RunTimer)

\* --------------------------------------------------------------- claims
\* The configured duration of a mode (lines 46-48).
Duration(mode) ==
    CASE mode = "Pomodoro" -> 1500
      [] mode = "Short Break" -> 300
      [] mode = "Long Break" -> 1800

Breaks == {"Short Break", "Long Break"}

\* C1: every interval completion follows the cycle rule.  Stated along
\* timer_finished, for an uninterrupted session: in the Work branch the count
\* becomes the count read plus one, the branch taken is Long Break iff the new
\* count is a multiple of 4 and Short Break otherwise; the other branch is taken
\* iff a break completes and it sets Work; when the assignments are done
\* time_left is the configured duration of the new mode.
C1_CycleRule ==
    \A t \in Live :
        /\ t.pc \in {"L209r", "L209w"} =>
               current_mode = "Pomodoro" /\ (t.pc = "L209w" => t.tmp = pomodoro_count)
        /\ t.pc \in {"L210", "L211", "L214"} =>
               current_mode = "Pomodoro" /\ pomodoro_count = t.tmp + 1
        /\ t.pc = "L211" => pomodoro_count % 4 = 0
        /\ t.pc = "L214" => pomodoro_count % 4 # 0
        /\ t.pc = "L212" => current_mode = "Long Break"
        /\ t.pc = "L215" => current_mode = "Short Break"
        /\ t.pc = "L217" => current_mode \in Breaks
        /\ t.pc = "L218" => current_mode = "Pomodoro"
        /\ t.pc = "L220" =>
               /\ time_left = Duration(current_mode)
               /\ current_mode = "Long Break" =>
                      pomodoro_count = t.tmp + 1 /\ pomodoro_count % 4 = 0
               /\ current_mode = "Short Break" =>
                      pomodoro_count = t.tmp + 1 /\ pomodoro_count % 4 # 0

\* The fourth Work interval has completed into a Long Break of 1800 s.
C1_Witness ==
    \E t \in Live :
        /\ t.pc = "L220"
        /\ current_mode = "Long Break"
        /\ pomodoro_count = 4
        /\ time_left = 1800

\* C2: time_left >= 0 in every reachable state.
C2_RemainingNonNegative == time_left >= 0

\* C3: a reset, in any state, yields mode Work, remaining 1500, count 0,
\* running false and paused false.
C3_ResetYieldsInitial ==
    [][ResetTimer =>
            /\ current_mode' = "Pomodoro"
            /\ time_left' = 1500
            /\ pomodoro_count' = 0
            /\ timer_running' = FALSE
            /\ timer_paused' = FALSE]_vars

\* A reset has just acted on a started timer: its thread is still alive.
C3_Witness ==
    /\ ~timer_running
    /\ NumThreads > 0
    /\ current_mode = "Pomodoro"
    /\ time_left = 1500
    /\ pomodoro_count = 0

\* C4: no stale tick: while running is false no countdown thread decrements
\* time_left or performs an assignment of a mode transition.
C4_NoStaleTick ==
    [][(\E t \in Live : \/ L192w(t) \/ L209w(t) \/ L211(t) \/ L212(t) \/ L214(t)
                        \/ L215(t) \/ L217(t) \/ L218(t))
          => timer_running]_vars

\* C5: at most one countdown loop is live at any time.
C5_OneTickSource == NumThreads <= 1

\* C6: start from Idle sets running and creates exactly one countdown thread,
\* changing nothing else of the timer; while the timer is Running or Paused no
\* step (a further start in particular) creates a thread.
C6_StartIdempotent ==
    [][/\ timer_running => NumThreads' <= NumThreads
       /\ StartTimer =>
              IF timer_running
              THEN UNCHANGED vars
              ELSE /\ timer_running'
                   /\ NumThreads' = NumThreads + 1
                   /\ UNCHANGED <<time_left, timer_paused, pomodoro_count,
                                  current_mode>>]_vars

\* The timer has been started and has one countdown thread.
C6_Witness == timer_running /\ NumThreads = 1 /\ start_button = "disabled"

\* C7: while paused stays true, time_left is not decremented.
C7_PauseStopsDecrement ==
    [][timer_paused /\ timer_paused' => time_left' >= time_left]_vars

ValidEntries ==
    { <<<<"0", "0", ":", "0", "0", ":", "0", "5">>, 5>>,
      <<<<"0", ":", "0", ":", "1">>, 1>>,
      <<<<"0", ":", " ", "0", ":", "+", "1">>, 1>>,
      <<<<"0", ":", "-", "1", ":", "6", "5">>, 5>> }

\* Entries with a wrong segment count, a non-integer segment or a total <= 0.
InvalidEntries ==
    { <<"0", "0", ":", "0", "0", ":", "0", "0">>,
      <<"-", "1", ":", "0", ":", "0">>,
      <<"1", ":", "2">>,
      <<"1", ":", "2", ":", "3", ":", "4">>,
      <<"0", ":", ":", "1">>,
      <<"a", ":", "0", ":", "1">>,
      <<"0", ":", "0", ":", "-">>,
      <<>> }

C10_InvalidInputRejected ==
    [][\A e \in InvalidEntries :
           SetCustomTime(e) => messagebox' # "" /\ UNCHANGED <<core, threads>>]_vars

\* An entry has been rejected after a custom set of 5 seconds, which stands.
C10_Witness == messagebox = "Time must be greater than zero" /\ time_left = 5

\* The intervals of the first cycle, in order.
CycleOrder ==
    <<"Pomodoro", "Short Break", "Pomodoro", "Short Break",
      "Pomodoro", "Short Break", "Pomodoro", "Long Break">>

\* The ticks of the intervals before the i-th one.
RECURSIVE TicksBefore(_)
TicksBefore(i) ==
    IF i = 1 THEN 0 ELSE TicksBefore(i - 1) + Duration(CycleOrder[i - 1])

\* A completion is between its increment of the count (line 209) and its
\* assignment of the mode (line 211 or 214).
Counted == \E t \in Live : t.pc \in {"L210", "L211", "L214"}

\* A completion has assigned the mode and not yet time_left (lines 212, 215,
\* 218).
Reloading == \E t \in Live : t.pc \in {"L212", "L215", "L218"}

\* The number of the interval the timer is in, from 1: the Work interval
\* after n completed ones is interval 2n + 1, the break after it 2n + 2.
IntervalIndex ==
    IF current_mode = "Pomodoro"
    THEN 2 * (pomodoro_count - (IF Counted THEN 1 ELSE 0)) + 1
    ELSE 2 * pomodoro_count

\* The seconds the interval still has to run.
Remaining == IF Reloading THEN Duration(current_mode) ELSE time_left

\* The ticks the state accounts for, were the intervals run in CycleOrder
\* for their configured durations.
Ticks ==
    TicksBefore(IntervalIndex) + Duration(current_mode) - Remaining

\* C11: after start() followed only by ticks the timer runs through Work,
\* Short Break, Work, Short Break, Work, Short Break, Work, Long Break in
\* that order, each for exactly its configured number of ticks: the state
\* accounts for 0 ticks at first, every decrement of line 192 adds one tick
\* and no other step adds or removes any, so that 1500 ticks end in Short
\* Break / 300 / count 1 and the 4th Work completion in Long Break / 1800 /
\* count 4.
C11_EndToEnd ==
    /\ current_mode = "Pomodoro" /\ Ticks = 0
    /\ [][IntervalIndex' <= Len(CycleOrder) =>
              /\ current_mode' = CycleOrder[IntervalIndex']
              /\ Remaining' \in 0 .. Duration(current_mode')
              /\ Ticks' = Ticks + (IF \E t \in Live : L192w(t) THEN 1 ELSE 0)]_vars

\* The 4th Work interval has just completed, 4 * 1500 + 3 * 300 ticks after
\* the start.
C11_Witness ==
    /\ current_mode = "Long Break"
    /\ pomodoro_count = 4
    /\ time_left = 1800
    /\ Ticks = 6900
    /\ \E t \in Live : t.pc = "L222"

\* C12: automatic cycling: an interval completion leaves the timer running,
\* and, with no pause and no reset, a running timer in a Work interval
\* eventually enters a break and a running timer in a break eventually enters
\* a Work interval (followed up to the MaxPomodoros-th Work completion).
C12_AutomaticCycling ==
    /\ [][(\E t \in Live : L223(t)) => timer_running']_vars
    /\ (timer_running /\ current_mode = "Pomodoro"
           /\ pomodoro_count < MaxPomodoros) ~> (current_mode \in Breaks)
    /\ (timer_running /\ current_mode \in Breaks) ~> (current_mode = "Pomodoro")

\* C13: an interval completion happens only where running is true, paused is
\* false and remaining is 0: the steps of timer_finished that count the Work
\* interval or assign the new mode are taken in such states only.
C13_CompletionOnlyWhenDue ==
    [][(\E t \in Live : L209w(t) \/ L211(t) \/ L214(t) \/ L217(t))
          => timer_running /\ ~timer_paused /\ time_left = 0]_vars

\* The values of time_left a reset or a custom set of n seconds leaves when
\* it is run before or after one tick: 1500 or n, or one less.
SerialRemaining ==
    {pomodoro_time, pomodoro_time - 1}
        \cup {e[2] : e \in ValidEntries} \cup {e[2] - 1 : e \in ValidEntries}

\* C14: control operations are serialized with the countdown.  The timer is
\* idle only at first and after a reset; once the threads a reset or a custom
\* set raced with have ended, the state is the one some serial order gives:
\* mode Work and count 0 of the reset, and time_left the value of the reset
\* or of the custom set, or one tick less.
C14_Serialized ==
    ~timer_running /\ NumThreads = 0 =>
        /\ current_mode = "Pomodoro"
        /\ pomodoro_count = 0
        /\ time_left \in SerialRemaining

\* C15: collaborator failures are non-fatal: whatever the notification and
\* the sound of an interval completion do, mode, time_left, count and
\* running are left as they are and the thread that counts down lives on.
C15_CollaboratorFailuresNonFatal ==
    [][(\E t \in Live : L222(t) \/ L223(t))
          => UNCHANGED core /\ NumThreads' = NumThreads]_vars

\* C16: on every interval completion the side effects happen once each and
\* in order, after mode and time_left have been assigned: the assignment of
\* time_left is followed by the display update, the display update by the
\* notification of "<current_mode> started!", the notification by the sound,
\* and the sound by the return to the loop.
C16_SideEffectsInOrder ==
    [][\A t \in Live :
           /\ L212(t) \/ L215(t) \/ L218(t) =>
                  /\ time_left' = Duration(current_mode')
                  /\ \E u \in Live' : u.pc = "L220"
           /\ L220(t) => \E u \in Live' : u.pc = "L222"
           /\ L222(t) => \E u \in Live' : u.pc = "L223"
           /\ L223(t) => \E u \in Live' : u.pc = "L187"]_vars

\* C17: every step leads to a state where Long Break implies a count >= 4
\* that is a multiple of 4 and Short Break a count >= 1 that is not; the
\* count changes only by +1 in a Work completion or to 0 in a reset.
C17_ModeCounterInvariant ==
    [][/\ current_mode' = "Long Break" =>
              pomodoro_count' >= 4 /\ pomodoro_count' % 4 = 0
       /\ current_mode' = "Short Break" =>
              pomodoro_count' >= 1 /\ pomodoro_count' % 4 # 0
       /\ pomodoro_count' # pomodoro_count =>
              \/ ResetTimer /\ pomodoro_count' = 0
              \/ /\ \E t \in Live : L209w(t)
                 /\ current_mode = "Pomodoro"
                 /\ pomodoro_count' = pomodoro_count + 1]_vars

\* C18: a custom duration is never persisted: in a session begun with custom
\* sets, the Work interval the completion of a break enters starts with
\* time_left = 1500, and no custom value is left in time_left by the time the
\* thread is back at the loop.
C18_CustomNotPersisted ==
    /\ [][(\E t \in Live : L218(t)) =>
              current_mode = "Pomodoro" /\ time_left' = 1500]_vars
    /\ [](\A t \in Live :
              t.pc \in {"L220", "L222", "L223"} => time_left = Duration(current_mode))

\* A Work interval begun from a custom value has completed, the Short Break
\* after it too, and the next Work interval has been entered.
C18_Witness ==
    /\ current_mode = "Pomodoro"
    /\ pomodoro_count = 1
    /\ time_left = 1500
    /\ \E t \in Live : t.pc = "L220"

\* C19: start() from Idle changes only running, from false to true: it
\* leaves time_left, mode, count and paused as they are; so the countdown
\* started after a custom set begins from the custom value: while the timer
\* runs, time_left changes only by a decrement of 1 or, at 0, by the reload of
\* an interval completion.
C19_StartChangesOnlyRunning ==
    [][/\ StartTimer /\ ~timer_running =>
              /\ timer_running'
              /\ UNCHANGED <<time_left, current_mode, pomodoro_count,
                             timer_paused>>
       /\ timer_running' /\ time_left' # time_left =>
              \/ time_left' = time_left - 1
              \/ time_left = 0 /\ time_left' = Duration(current_mode')]_vars

\* The countdown started after a custom set of 5 seconds has made its first
\* tick.
C19_Witness ==
    /\ timer_running
    /\ current_mode = "Pomodoro"
    /\ pomodoro_count = 0
    /\ time_left = 4
============================================================================
